---- MODULE Spec2Model ----
(***************************************************************************)
(* Model of src/shutter.py: the Somfy RTS shutter controller (class        *)
(* Shutter), its per-shutter position tracking, the deferred finalize      *)
(* threads started by lower/rise/stop, and the transmit critical section   *)
(* of sendCommand.                                                         *)
(*                                                                         *)
(* Time is discrete, in ticks of 1/TicksPerSecond second, and relative to   *)
(* the present: a stored time.monotonic() value is kept as its age (the     *)
(* ticks elapsed since it was read) and a sleep as the ticks it has left.   *)
(* time.monotonic() is a nanosecond clock: two values stored in the same    *)
(* ShutterState are never equal, so a stored value also carries its         *)
(* sequence number seq, and two values are equal iff their seq are.         *)
(***************************************************************************)
EXTENDS Integers, Sequences, FiniteSets, TLC

\* ---------------------------------------------------------------- bounds
\* number of command calls (lower, rise, stop, partial moves, program)
MaxCmds == 2
\* number of pressButtons calls
MaxSends == 3
\* number of callbacks registered with registerCallBack
MaxCallbacks == 1
\* clock resolution: ticks per second
TicksPerSecond == 2

\* ---------------------------------------------------------------- configuration
None == "None"

\* Button values (class attributes of Shutter)
buttonUp == 2
buttonStop == 1
buttonDown == 4
buttonProg == 8

\* Config.Shutters: the configuration the controller is constructed with.
\* Travel times are in seconds; they are kept short here so that a full
\* travel fits inside the clock horizon.  intermediatePosition is <<p>>, or
\* <<>> for Python's None: shutter "2" has no intermediate position.
Shutters ==
    [id \in {"1", "2"} |->
        IF id = "1"
        THEN [durationDown |-> 2, durationUp |-> 3, intermediatePosition |-> <<50>>, code |-> 1]
        ELSE [durationDown |-> 3, durationUp |-> 2, intermediatePosition |-> <<>>, code |-> 1]]

\* Config.SendRepeat
SendRepeat == 2

\* Config.TXGPIO
TXGPIO == 16

\* ids a caller may pass: the configured ones and one that is not configured
UnknownIds == {"3"}
AllIds == DOMAIN Shutters \cup UnknownIds

\* targets passed to lowerPartial / risePartial
PartialTargets == {75}

\* the threads that call command verbs
Callers == {"c1", "c2"}

\* ---------------------------------------------------------------- arithmetic
\* Python 3 round(): round half to even, of the rational num/den (num >= 0, den > 0)
Round(num, den) ==
    LET q == num \div den
        r == num % den
    IN  IF 2 * r < den THEN q
        ELSE IF 2 * r > den THEN q + 1
        ELSE IF q % 2 = 0 THEN q ELSE q + 1

\* least integer >= num/den (den > 0)
Ceil(num, den) == IF num % den = 0 THEN num \div den ELSE (num \div den) + 1

Min(a, b) == IF a < b THEN a ELSE b
Max(a, b) == IF a > b THEN a ELSE b
Abs(a) == IF a < 0 THEN -a ELSE a

VARIABLES
    shutterStateList,  \* the dictionary id -> ShutterState
    code,              \* config.Shutters[id]['code']
    lock,              \* holder of self.lock, or None
    busy,              \* pi.wave_tx_busy()
    frame,             \* self.frame: what the frame buffer is built from (every
                       \* send rewrites it before reading it: it is kept only
                       \* inside the transmit section)
    wave,              \* the send in progress: the octets of self.frame as
                       \* encoded, and the pulses handed to pi.wave_add_generic
    sent,              \* history: per id, <<c>> for the rolling code c of the
                       \* last frame handed to the backend, <<>> before the first
    callback,          \* number of functions in self.callback
    calls,             \* the invocations made by the latest callback loop
    th,                \* per caller thread: position in the code and locals
    fin,               \* the waitAndSetFinalPosition threads, in start order
    ncmds,             \* command calls made so far
    last               \* history: per id, how the command call that returned last ended

vars == <<shutterStateList, code, lock, busy, frame, wave, sent, callback, calls, th,
          fin, ncmds, last>>

\* the longest travel time of the configuration, in seconds
MaxDuration ==
    LET D == {Shutters[id].durationDown : id \in DOMAIN Shutters}
                \cup {Shutters[id].durationUp : id \in DOMAIN Shutters}
    IN  CHOOSE d \in D : \A e \in D : e <= d

\* ages stop counting here: an older timestamp is past every travel time
AgeCap == (MaxDuration + 1) * TicksPerSecond

\* time.monotonic() as ShutterState.__init__ stores it
monotonicFirst == [seq |-> 0, age |-> 0]

\* time.monotonic() as registerCommand stores it over the value `previous`
monotonic(previous) == [seq |-> previous.seq + 1, age |-> 0]

\* A caller thread that is not inside any call.  The fields from `created` on
\* are history of the call in progress: whether it created the ShutterState,
\* whether it did and no other command has been called on the shutter since,
\* the position found at entry, the position stop computes from, the code
\* stored before its first send, the pulse trains it submitted, whether
\* another thread registered a command after it did, how the previous call on
\* the shutter ended, whether the shutter had settled when the call began.
\* `code` is the local of that name in sendCommand.
IdleThread ==
    [pc |-> "idle", verb |-> None, id |-> None, target |-> 0, button |-> 0,
     repetition |-> 0, phase |-> 0, dir |-> None, s |-> 0, fallback |-> FALSE,
     newPosition |-> 0, sleepLeft |-> 0, failed |-> FALSE,
     created |-> FALSE, alone |-> FALSE, initial |-> 0, positionRead |-> 0,
     codeBefore |-> 0, nsent |-> 0, overtaken |-> FALSE, prev |-> None,
     code |-> 0, settled |-> FALSE]

NoFrame == [id |-> None, button |-> 0, code |-> 0, repetition |-> 0]

\* no send in progress: no wave is defined in the backend
NoWave == [teleco |-> 0, button |-> 0, code |-> 0, repetition |-> 0,
           octets |-> <<>>, pulses |-> <<>>]

Init ==
    /\ shutterStateList = <<>>
    /\ code = [id \in DOMAIN Shutters |-> Shutters[id].code]
    /\ lock = None
    /\ busy = FALSE
    /\ frame = NoFrame
    /\ wave = NoWave
    /\ sent = [id \in DOMAIN Shutters |-> <<>>]
    /\ callback = 0
    /\ calls = <<>>
    /\ th = [t \in Callers |-> IdleThread]
    /\ fin = <<>>
    /\ ncmds = 0
    /\ last = [id \in AllIds |-> None]

\* ---------------------------------------------------------------- helpers
\* initialPosition with stop passing 0 like getPosition
initialPosition_stopClosed(verb) ==
    CASE verb \in {"lower", "lowerPartial"} -> 100
      [] OTHER -> 0

\* the initialPosition argument each verb passes to getShutterState
initialPosition(verb) ==
    CASE verb \in {"lower", "lowerPartial"} -> 100
      [] verb \in {"rise", "risePartial"} -> 0
      [] verb = "stop" -> 50
      [] OTHER -> 0

\* the button each verb sends first
ButtonOf(verb) ==
    CASE verb \in {"lower", "lowerPartial"} -> buttonDown
      [] verb \in {"rise", "risePartial"} -> buttonUp
      [] verb = "stop" -> buttonStop
      [] OTHER -> buttonProg

\* ShutterState.__init__
ShutterState(initPosition) ==
    [position |-> initPosition, lastCommandTime |-> monotonicFirst,
     lastCommandDirection |-> None]

Partial(verb) == verb \in {"lowerPartial", "risePartial"}

\* StopPosition without the min/max of lines 160 and 169
StopPosition_unclamped(dir, position, s, duration) ==
    LET durationPercentage == Round(s * 100, duration)
    IN  IF dir = "up"
        THEN IF position > 0 THEN position + durationPercentage
             ELSE durationPercentage
        ELSE IF position < 100 THEN position - durationPercentage
             ELSE 100 - durationPercentage

\* StopPosition with the percentage truncated instead of rounded
StopPosition_truncated(dir, position, s, duration) ==
    LET durationPercentage == (s * 100) \div duration
    IN  IF dir = "up"
        THEN IF position > 0 THEN Min(100, position + durationPercentage)
             ELSE durationPercentage
        ELSE IF position < 100 THEN Max(0, position - durationPercentage)
             ELSE 100 - durationPercentage

\* the position stop computes from the elapsed time (lines 159-177), given the
\* direction, the stored position, the rounded elapsed seconds and the travel time
StopPosition(dir, position, s, duration) ==
    LET durationPercentage == Round(s * 100, duration)
    IN  IF dir = "up"
        THEN IF position > 0 THEN Min(100, position + durationPercentage)
             ELSE durationPercentage
        ELSE IF position < 100 THEN Max(0, position - durationPercentage)
             ELSE 100 - durationPercentage

\* StopInWindow with the up branch taken for every direction that is not down
StopInWindow_anyDirection(dir, s, id) ==
    \/ dir # "down" /\ s > 0 /\ s < Shutters[id].durationUp
    \/ dir = "down" /\ s > 0 /\ s < Shutters[id].durationDown

\* whether stop computes a position from the elapsed time (lines 159-183)
StopInWindow(dir, s, id) ==
    \/ dir = "up" /\ s > 0 /\ s < Shutters[id].durationUp
    \/ dir = "down" /\ s > 0 /\ s < Shutters[id].durationDown

\* the return of a call: the thread is idle again
Return(t, outcome) == IdleThread

\* history: "stop committed" after a stop that wrote a position and registered
\* None, "stop deferred" after a stop that started a finalize thread, "partial
\* committed" after a partial move that wrote its target, "other" after any
\* other call
Returned(t, outcome) ==
    last' = [last EXCEPT ![th[t].id] =
                IF th[t].verb = "stop" /\ outcome # "error" THEN "stop " \o outcome
                ELSE IF Partial(th[t].verb) /\ outcome = "committed"
                     THEN "partial committed"
                ELSE "other"]

\* the callback loop of setPosition (lines 79-80): each function of
\* self.callback is called with (shutterId, newPosition)
Callbacks(id, position, by) ==
    calls' = [k \in 1..callback |-> [fn |-> k, id |-> id, position |-> position, by |-> by]]

\* history: a command is called on shutter id, so no earlier command on it is
\* the only one any more
NotAlone(id) ==
    [u \in Callers |-> IF th[u].id = id THEN [th[u] EXCEPT !.alone = FALSE] ELSE th[u]]

\* history: the shutter has settled and no command has been called on it
\* since: a finalize thread has committed its target, or a partial move has
\* returned after committing its target
Settled(id) ==
    \/ \E i \in 1..Len(fin) : fin[i].id = id /\ fin[i].settled
    \/ last[id] = "partial committed"

\* ---------------------------------------------------------------- the command verbs
\* A caller enters lower, rise, stop or a partial move: the first statement is
\* getShutterState(shutterId, initialPosition), which creates the state when
\* the id is not yet in shutterStateList; the print that follows looks the id
\* up in config.Shutters and raises KeyError for an id that is not configured.
Call(t, verb, id, target) ==
    /\ th[t].pc = "idle"
    /\ ncmds < MaxCmds
    /\ ncmds' = ncmds + 1
    /\ LET created == id \notin DOMAIN shutterStateList
           state == IF created THEN ShutterState(initialPosition(verb))
                    ELSE shutterStateList[id]
           entered == [IdleThread EXCEPT !.pc = "acquire",
                                         !.verb = verb, !.id = id, !.target = target,
                                         !.button = ButtonOf(verb),
                                         !.repetition = SendRepeat,
                                         !.phase = 1,
                                         !.created = created,
                                         !.alone = created,
                                         !.initial = state.position,
                                         !.prev = last[id],
                                         !.settled = Settled(id)]
       IN  /\ shutterStateList' = (id :> state) @@ shutterStateList
           /\ IF id \in DOMAIN Shutters
              THEN /\ th' = [NotAlone(id) EXCEPT ![t] = entered]
                   /\ UNCHANGED last
              ELSE /\ th' = [NotAlone(id) EXCEPT ![t] = IdleThread]
                   /\ last' = [last EXCEPT ![id] = "other"]
    /\ fin' = [i \in 1..Len(fin) |->
                 IF fin[i].id = id THEN [fin[i] EXCEPT !.alone = FALSE, !.settled = FALSE] ELSE fin[i]]
    /\ UNCHANGED <<code, lock, busy, frame, wave, sent, callback, calls>>

lower(t, id) == Call(t, "lower", id, 0)
rise(t, id) == Call(t, "rise", id, 0)
stop(t, id) == Call(t, "stop", id, 0)
lowerPartial(t, id, percentage) == Call(t, "lowerPartial", id, percentage)
risePartial(t, id, percentage) == Call(t, "risePartial", id, percentage)

\* program written like the verbs that track the position: getShutterState
\* first, Config.SendRepeat repetitions
program_likeVerbs(t, id) == Call(t, "program", id, 0)

\* program: sendCommand(shutterId, buttonProg, 1) and nothing else
program(t, id) ==
    /\ th[t].pc = "idle"
    /\ ncmds < MaxCmds
    /\ ncmds' = ncmds + 1
    /\ th' = [NotAlone(id) EXCEPT ![t] =
                [IdleThread EXCEPT !.pc = "acquire", !.verb = "program", !.id = id,
                                   !.button = buttonProg, !.repetition = 1, !.phase = 1,
                                   !.prev = last[id]]]
    /\ fin' = [i \in 1..Len(fin) |->
                 IF fin[i].id = id THEN [fin[i] EXCEPT !.alone = FALSE, !.settled = FALSE] ELSE fin[i]]
    /\ UNCHANGED <<shutterStateList, code, lock, busy, frame, wave, sent, callback, calls, last>>

\* the repetition count of a long press (line 211)
LongPress == 35

\* pressButtons: sendCommand(shutterId, buttons, 35 if longPress else 1)
pressButtons(t, id, buttons, longPress) ==
    /\ th[t].pc = "idle"
    /\ ncmds < MaxSends
    /\ ncmds' = ncmds + 1
    /\ th' = [NotAlone(id) EXCEPT ![t] =
                [IdleThread EXCEPT !.pc = "acquire", !.verb = "pressButtons", !.id = id,
                                   !.button = buttons,
                                   !.repetition = IF longPress THEN LongPress ELSE 1,
                                   !.phase = 1, !.prev = last[id]]]
    /\ fin' = [i \in 1..Len(fin) |->
                 IF fin[i].id = id THEN [fin[i] EXCEPT !.alone = FALSE, !.settled = FALSE] ELSE fin[i]]
    /\ UNCHANGED <<shutterStateList, code, lock, busy, frame, wave, sent, callback, calls,
                   last>>

\* getPosition: getShutterState(shutterId, 0); the position read is returned
getPosition(t, id) ==
    /\ th[t].pc = "idle"
    /\ LET created == id \notin DOMAIN shutterStateList
           state == IF created THEN ShutterState(0) ELSE shutterStateList[id]
       IN  /\ shutterStateList' = (id :> state) @@ shutterStateList
    /\ UNCHANGED <<code, lock, busy, frame, wave, sent, callback, calls, th, fin, ncmds, last>>

\* ---------------------------------------------------------------- frame and pulses
\* bitwise operators of Python on non-negative integers
RECURSIVE Xor(_, _)
Xor(a, b) ==
    IF a = 0 THEN b
    ELSE IF b = 0 THEN a
    ELSE (((a % 2) + (b % 2)) % 2) + 2 * Xor(a \div 2, b \div 2)

RECURSIVE Or(_, _)
Or(a, b) ==
    IF a = 0 THEN b
    ELSE IF b = 0 THEN a
    ELSE (IF (a % 2) = 1 \/ (b % 2) = 1 THEN 1 ELSE 0) + 2 * Or(a \div 2, b \div 2)

\* a << n and a >> n
ShiftLeft(a, n) == a * 2^n
ShiftRight(a, n) == a \div 2^n

\* int(shutterId, 16) of line 230, for the ids callers pass
teleco(shutterId) ==
    CASE shutterId = "1" -> 1
      [] shutterId = "2" -> 2
      [] shutterId = "3" -> 3

\* lines 249-255: the seven octets before the checksum
frameFields(button, rollingCode, address) ==
    <<167,
      ShiftLeft(button, 4),
      ShiftRight(rollingCode, 8),
      rollingCode % 256,
      ShiftRight(address, 16),
      ShiftRight(address, 8) % 256,
      address % 256>>

\* a bytearray item must be in range(0, 256): a larger value raises ValueError
fits(button, rollingCode, address) ==
    \A i \in 1..7 : frameFields(button, rollingCode, address)[i] < 256

\* lines 262-265: checksum ^= frame[i] ^ (frame[i] >> 4) over the seven octets,
\* then the low four bits
RECURSIVE checksumFrom(_, _, _)
checksumFrom(f, i, checksum) ==
    IF i > 7 THEN checksum % 16
    ELSE checksumFrom(f, i + 1, Xor(Xor(checksum, f[i]), ShiftRight(f[i], 4)))

\* line 267: frame[1] |= checksum
withChecksum(f) == [f EXCEPT ![2] = Or(@, checksumFrom(f, 1, 0))]

\* obfuscateFrom with each octet XORed with the octet before it as it was
\* before the loop
obfuscateFrom_unchained(f, i) ==
    [k \in 1..7 |-> IF k < i THEN f[k] ELSE Xor(f[k], f[k - 1])]

\* lines 274-275: frame[i] ^= frame[i-1] for i = 1..6, each with the octet
\* before it as already rewritten (octet i of the code is item i + 1 here)
RECURSIVE obfuscateFrom(_, _)
obfuscateFrom(f, i) ==
    IF i > 7 THEN f
    ELSE obfuscateFrom([f EXCEPT ![i] = Xor(f[i], f[i - 1])], i + 1)

\* self.frame after line 275
encode(button, rollingCode, address) ==
    obfuscateFrom(withChecksum(frameFields(button, rollingCode, address)), 2)

\* pigpio.pulse(gpio_on, gpio_off, delay)
pulse(gpio_on, gpio_off, delay) == <<gpio_on, gpio_off, delay>>

\* the two pulses the code appends for the pin active then idle
activeIdle(activeDelay, idleDelay) ==
    <<pulse(ShiftLeft(1, TXGPIO), 0, activeDelay), pulse(0, ShiftLeft(1, TXGPIO), idleDelay)>>

\* lines 286-288, 303-305: the hardware synchronization, n times
RECURSIVE hardwareSync(_)
hardwareSync(n) == IF n = 0 THEN <<>> ELSE activeIdle(2560, 2560) \o hardwareSync(n - 1)

\* lines 292-298, 309-315: the manchester encoding of payload bits i..55
RECURSIVE payloadFrom(_, _)
payloadFrom(f, i) ==
    IF i > 55 THEN <<>>
    ELSE (IF (ShiftRight(f[(i \div 8) + 1], 7 - (i % 8)) % 2) = 1
          THEN <<pulse(0, ShiftLeft(1, TXGPIO), 640), pulse(ShiftLeft(1, TXGPIO), 0, 640)>>
          ELSE <<pulse(ShiftLeft(1, TXGPIO), 0, 640), pulse(0, ShiftLeft(1, TXGPIO), 640)>>)
         \o payloadFrom(f, i + 1)

\* lines 300, 317: the interframe gap
interframeGap == <<pulse(0, ShiftLeft(1, TXGPIO), 30415)>>

\* lines 302-317: the repeated frames j = from..repetition-1
RECURSIVE repeatedFrames(_, _, _)
repeatedFrames(f, from, repetition) ==
    IF from >= repetition THEN <<>>
    ELSE hardwareSync(7) \o activeIdle(4550, 640) \o payloadFrom(f, 0) \o interframeGap
         \o repeatedFrames(f, from + 1, repetition)

\* pulseTrain with the repeating frames counted from 0
pulseTrain_fromZero(f, repetition) ==
    activeIdle(9415, 89565) \o hardwareSync(2) \o activeIdle(4550, 640)
    \o payloadFrom(f, 0) \o interframeGap \o repeatedFrames(f, 0, repetition)

\* lines 283-317: the list wf
pulseTrain(f, repetition) ==
    activeIdle(9415, 89565) \o hardwareSync(2) \o activeIdle(4550, 640)
    \o payloadFrom(f, 0) \o interframeGap \o repeatedFrames(f, 1, repetition)

\* what sendCommand hands to the backend (lines 249-321)
submitted(address, button, rollingCode, repetition) ==
    [teleco |-> address, button |-> button, code |-> rollingCode,
     repetition |-> repetition,
     octets |-> encode(button, rollingCode, address),
     pulses |-> pulseTrain(encode(button, rollingCode, address), repetition)]

\* ---------------------------------------------------------------- sendCommand
\* sendCommandAcquire that does not wait for the lock to be free
sendCommandAcquire_noLock(t) ==
    /\ th[t].pc = "acquire"
    /\ lock' = t
    /\ th' = [th EXCEPT ![t].pc = "read"]
    /\ UNCHANGED <<shutterStateList, code, busy, frame, wave, sent, callback, calls,
                   fin, ncmds, last>>

\* self.lock.acquire() (line 226)
sendCommandAcquire(t) ==
    /\ th[t].pc = "acquire"
    /\ lock = None
    /\ lock' = t
    /\ th' = [th EXCEPT ![t].pc = "read"]
    /\ UNCHANGED <<shutterStateList, code, busy, frame, wave, sent, callback, calls,
                   fin, ncmds, last>>

\* nextCode with the incremented code not stored
nextCode_notStored(c) == c

\* WaveFinished without the busy wait
WaveFinished_noWait(t) == TRUE

\* line 234: the code stored by config.setCode
nextCode(c) == c + 1

\* lines 322-323: the busy wait is over (nothing was submitted when the try
\* block was left by an exception)
WaveFinished(t) == th[t].failed \/ ~busy

\* lines 229-231: teleco and the stored code are read into locals.  An id that
\* is not configured raises KeyError at line 231.
sendCommandRead(t) ==
    /\ th[t].pc = "read"
    /\ IF th[t].id \notin DOMAIN Shutters
       THEN th' = [th EXCEPT ![t].pc = "release", ![t].failed = TRUE]
       ELSE th' = [th EXCEPT ![t].pc = "encode", ![t].code = code[th[t].id]]
    /\ UNCHANGED <<shutterStateList, code, lock, busy, frame, wave, sent, callback,
                   calls, fin, ncmds, last>>

\* lines 234-321: the code read plus one is stored, the backend is connected,
\* the frame buffer is written and the pulse train is submitted.  A backend
\* that is not connected makes exit() raise SystemExit at line 239; a frame
\* field that does not fit its octet raises ValueError at lines 250-255.
sendCommandEncode(t) ==
    /\ th[t].pc = "encode"
    /\ LET id == th[t].id
           rollingCode == th[t].code
           before == IF th[t].phase = 1 THEN rollingCode ELSE th[t].codeBefore
       IN
       /\ code' = [code EXCEPT ![id] = nextCode(rollingCode)]
       /\ \E connected \in BOOLEAN :
            IF connected /\ fits(th[t].button, rollingCode, teleco(id))
            THEN /\ frame' = [id |-> id, button |-> th[t].button, code |-> rollingCode,
                              repetition |-> th[t].repetition]
                 /\ wave' = submitted(teleco(id), th[t].button, rollingCode,
                                      th[t].repetition)
                 /\ sent' = [sent EXCEPT ![id] = <<rollingCode>>]
                 /\ busy' = TRUE
                 /\ th' = [th EXCEPT ![t].pc = "release",
                                     ![t].nsent = th[t].nsent + 1,
                                     ![t].codeBefore = before,
                                     ![t].code = 0]
            ELSE /\ th' = [th EXCEPT ![t].pc = "release", ![t].failed = TRUE,
                                     ![t].codeBefore = before,
                                     ![t].code = 0]
                 /\ UNCHANGED <<frame, wave, sent, busy>>
    /\ UNCHANGED <<shutterStateList, lock, callback, calls, fin, ncmds, last>>

\* the backend finishes the pulse train: pi.wave_tx_busy() turns false
wave_tx_done ==
    /\ busy
    /\ busy' = FALSE
    /\ UNCHANGED <<shutterStateList, code, lock, frame, wave, sent, callback, calls,
                   th, fin, ncmds, last>>

\* what the caller does after sendCommand has returned normally
AfterSend(t) ==
    LET v == th[t].verb IN
    CASE v = "lower" -> [th[t] EXCEPT !.pc = "regDir", !.dir = "down"]
      [] v = "rise" -> [th[t] EXCEPT !.pc = "regDir", !.dir = "up"]
      [] v = "lowerPartial" /\ th[t].phase = 1 -> [th[t] EXCEPT !.pc = "regDir", !.dir = "down"]
      [] v = "risePartial" /\ th[t].phase = 1 -> [th[t] EXCEPT !.pc = "regDir", !.dir = "up"]
      [] Partial(v) /\ th[t].phase = 2 ->
            [th[t] EXCEPT !.pc = "setPosition", !.newPosition = th[t].target]
      [] v = "stop" -> [th[t] EXCEPT !.pc = "elapsed"]
      [] OTHER -> Return(t, "ok")

\* sendCommandRelease with the release at the end of the try block instead of
\* in a finally clause: an exception leaves the lock held
sendCommandRelease_noFinally(t) ==
    /\ th[t].pc = "release"
    /\ WaveFinished(t)
    /\ lock' = IF th[t].failed THEN lock ELSE None
    /\ frame' = NoFrame
    /\ wave' = NoWave
    /\ IF th[t].failed
       THEN /\ th' = [th EXCEPT ![t] = Return(t, "error")]
            /\ Returned(t, "error")
       ELSE /\ th' = [th EXCEPT ![t] = AfterSend(t)]
            /\ IF th[t].verb \in {"program", "pressButtons"} THEN Returned(t, "ok")
               ELSE UNCHANGED last
    /\ UNCHANGED <<shutterStateList, code, busy, sent, callback, calls, fin, ncmds>>

\* lines 322-328: the busy wait, then the finally clause releases the lock; an
\* exception raised inside the try block leaves through the same finally
sendCommandRelease(t) ==
    /\ th[t].pc = "release"
    /\ WaveFinished(t)
    /\ lock' = None
    /\ frame' = NoFrame
    /\ wave' = NoWave
    /\ IF th[t].failed
       THEN /\ th' = [th EXCEPT ![t] = Return(t, "error")]
            /\ Returned(t, "error")
       ELSE /\ th' = [th EXCEPT ![t] = AfterSend(t)]
            /\ IF th[t].verb \in {"program", "pressButtons"} THEN Returned(t, "ok")
               ELSE UNCHANGED last
    /\ UNCHANGED <<shutterStateList, code, busy, sent, callback, calls, fin, ncmds>>

\* ---------------------------------------------------------------- registerCommand
\* line 46: self.lastCommandDirection = commandDirection
registerCommandDirection(t) ==
    /\ th[t].pc = "regDir"
    /\ shutterStateList' = [shutterStateList EXCEPT
                              ![th[t].id].lastCommandDirection = th[t].dir]
    /\ th' = [th EXCEPT ![t].pc = "regTime"]
    /\ UNCHANGED <<code, lock, busy, frame, wave, sent, callback, calls, fin, ncmds, last>>

\* line 47: self.lastCommandTime = time.monotonic(), and the statement after
\* registerCommand: the sleep of a partial move, the thread start of lower,
\* rise and the stop fallback, the return of stop.
\* History: the finalize threads of this shutter whose travel time, counted
\* from the registration of the command that scheduled them, has not yet
\* elapsed are superseded by this registration.
registerCommandTime(t) ==
    /\ th[t].pc = "regTime"
    /\ LET id == th[t].id IN
       /\ shutterStateList' = [shutterStateList EXCEPT
                                 ![id].lastCommandTime = monotonic(@)]
       /\ fin' = [i \in 1..Len(fin) |->
                    IF fin[i].id = id /\ fin[i].travelLeft > 0
                    THEN [fin[i] EXCEPT !.superseded = TRUE] ELSE fin[i]]
       /\ LET others == [u \in Callers |->
                           IF u # t /\ th[u].pc = "spawn" /\ th[u].id = id
                           THEN [th[u] EXCEPT !.overtaken = TRUE] ELSE th[u]]
          IN  IF th[t].verb = "stop" /\ th[t].dir = None
              THEN /\ th' = [others EXCEPT ![t] = Return(t, "committed")]
                   /\ Returned(t, "committed")
              ELSE /\ th' = [others EXCEPT
                               ![t].pc = IF Partial(th[t].verb) THEN "sleep" ELSE "spawn"]
                   /\ UNCHANGED last
    /\ UNCHANGED <<code, lock, busy, frame, wave, sent, callback, calls, ncmds>>

\* timeToWait with lower timed by durationUp
timeToWait_durationUp(verb, dir, id, position) ==
    CASE verb = "lower" -> position * Shutters[id].durationUp * TicksPerSecond
      [] verb = "rise" -> (100 - position) * Shutters[id].durationUp * TicksPerSecond
      [] OTHER ->
            Abs(position - Shutters[id].intermediatePosition[1])
              * (IF dir = "down" THEN Shutters[id].durationDown ELSE Shutters[id].durationUp)
              * TicksPerSecond

\* ---------------------------------------------------------------- deferred finalize
\* timeToWait in hundredths of a tick, as lower (line 104), rise (line 128) and
\* the stop fallback (lines 194, 197) compute it from the position they read
timeToWait(verb, dir, id, position) ==
    CASE verb = "lower" -> position * Shutters[id].durationDown * TicksPerSecond
      [] verb = "rise" -> (100 - position) * Shutters[id].durationUp * TicksPerSecond
      [] OTHER ->
            Abs(position - Shutters[id].intermediatePosition[1])
              * (IF dir = "down" THEN Shutters[id].durationDown ELSE Shutters[id].durationUp)
              * TicksPerSecond

\* finalPosition with the stop fallback ending fully open
finalPosition_open(verb, id) ==
    CASE verb = "lower" -> 0
      [] verb = "rise" -> 100
      [] OTHER -> 100

\* the newPosition argument given to waitAndSetFinalPosition
finalPosition(verb, id) ==
    CASE verb = "lower" -> 0
      [] verb = "rise" -> 100
      [] OTHER -> Shutters[id].intermediatePosition[1]

\* lines 104-106, 128-130, 194-201: timeToWait is computed and the thread that
\* runs waitAndSetFinalPosition is started; the verb returns
startThread(t) ==
    /\ th[t].pc = "spawn"
    /\ LET id == th[t].id
           ttw == timeToWait(th[t].verb, th[t].dir, id, shutterStateList[id].position)
       IN  fin' = Append(fin, [id |-> id, timeToWait |-> ttw,
                               newPosition |-> finalPosition(th[t].verb, id),
                               pc |-> "start", oldLastCommandTime |-> 0,
                               sleepLeft |-> 0, verb |-> th[t].verb,
                               travelLeft |-> ttw,
                               superseded |-> th[t].overtaken /\ ttw > 0,
                               alone |-> th[t].alone,
                               ncalls |-> 0,
                               settled |-> FALSE])
    /\ th' = [th EXCEPT ![t] = Return(t, "deferred")]
    /\ Returned(t, "deferred")
    /\ UNCHANGED <<shutterStateList, code, lock, busy, frame, wave, sent, callback, calls,
                   ncmds>>

\* the name of the i-th thread started with threading.Thread (lines 105, 129, 200)
Thread(i) == "Thread-" \o ToString(i)

\* line 84: the token the new thread compares against
CaptureToken(i) == shutterStateList[fin[i].id].lastCommandTime.seq

\* lines 83-87: the new thread reads state.lastCommandTime and goes to sleep
waitAndSetFinalPositionStart(i) ==
    /\ fin[i].pc = "start"
    /\ fin' = [fin EXCEPT ![i].pc = "sleep",
                          ![i].oldLastCommandTime = CaptureToken(i),
                          ![i].sleepLeft = Ceil(fin[i].timeToWait, 100)]
    /\ UNCHANGED <<shutterStateList, code, lock, busy, frame, wave, sent, callback, calls,
                   th, ncmds, last>>

\* a finalize thread that has ended: only its history is kept
Ended(f, pc) ==
    [f EXCEPT !.pc = pc, !.timeToWait = 0, !.oldLastCommandTime = 0, !.travelLeft = 0]

\* the test of line 90
NotInterrupted(i) ==
    shutterStateList[fin[i].id].lastCommandTime.seq = fin[i].oldLastCommandTime

\* lines 87-94: the sleep is over; the thread compares lastCommandTime
waitAndSetFinalPositionWake(i) ==
    /\ fin[i].pc = "sleep"
    /\ fin[i].sleepLeft = 0
    /\ fin' = [fin EXCEPT ![i] = IF NotInterrupted(i) THEN [@ EXCEPT !.pc = "setPosition"]
                                  ELSE Ended(@, "discarded")]
    /\ UNCHANGED <<shutterStateList, code, lock, busy, frame, wave, sent, callback, calls,
                   th, ncmds, last>>

\* ---------------------------------------------------------------- setPosition
\* lines 76-78: state.position = newPosition under sutterStateLock
WritePosition(id, newPosition) ==
    shutterStateList' = [shutterStateList EXCEPT ![id].position = newPosition]

\* setPosition called by waitAndSetFinalPosition (line 92)
waitAndSetFinalPositionSet(i) ==
    /\ fin[i].pc = "setPosition"
    /\ WritePosition(fin[i].id, fin[i].newPosition)
    /\ fin' = [fin EXCEPT ![i].pc = "callbacks", ![i].settled = TRUE]
    /\ UNCHANGED <<code, lock, busy, frame, wave, sent, callback, calls, th, ncmds, last>>

waitAndSetFinalPositionCallbacks(i) ==
    /\ fin[i].pc = "callbacks"
    /\ Callbacks(fin[i].id, fin[i].newPosition, Thread(i))
    /\ fin' = [fin EXCEPT ![i] = Ended([@ EXCEPT !.ncalls = Len(calls')], "done")]
    /\ UNCHANGED <<shutterStateList, code, lock, busy, frame, wave, sent, callback, th,
                   ncmds, last>>

\* setPosition called by stop (line 204) and by the partial moves (lines 118, 142)
setPosition(t) ==
    /\ th[t].pc = "setPosition"
    /\ WritePosition(th[t].id, th[t].newPosition)
    /\ th' = [th EXCEPT ![t].pc = "callbacks"]
    /\ UNCHANGED <<code, lock, busy, frame, wave, sent, callback, calls, fin, ncmds, last>>

\* lines 79-80 in the caller's thread; a partial move returns, stop goes on to
\* registerCommand(None) (line 207)
setPositionCallbacks(t) ==
    /\ th[t].pc = "callbacks"
    /\ Callbacks(th[t].id, th[t].newPosition, t)
    /\ IF Partial(th[t].verb)
       THEN /\ th' = [th EXCEPT ![t] = Return(t, "committed")]
            /\ Returned(t, "committed")
       ELSE /\ th' = [th EXCEPT ![t].pc = "regDir", ![t].dir = None]
            /\ UNCHANGED last
    /\ UNCHANGED <<shutterStateList, code, lock, busy, frame, wave, sent, callback, fin,
                   ncmds>>

\* ---------------------------------------------------------------- partial moves
\* the argument of time.sleep in lowerPartial (line 114) and risePartial
\* (line 138), in hundredths of a tick
partialSleep(verb, id, position, percentage) ==
    IF verb = "lowerPartial"
    THEN (position - percentage) * Shutters[id].durationDown * TicksPerSecond
    ELSE (percentage - position) * Shutters[id].durationUp * TicksPerSecond

\* time.sleep is entered; a negative argument raises ValueError
partialSleepStart(t) ==
    /\ th[t].pc = "sleep"
    /\ LET d == partialSleep(th[t].verb, th[t].id,
                             shutterStateList[th[t].id].position, th[t].target)
       IN  IF d < 0
           THEN /\ th' = [th EXCEPT ![t] = Return(t, "error")]
                /\ Returned(t, "error")
           ELSE /\ th' = [th EXCEPT ![t].pc = "sleeping",
                                    ![t].sleepLeft = Ceil(d, 100)]
                /\ UNCHANGED last
    /\ UNCHANGED <<shutterStateList, code, lock, busy, frame, wave, sent, callback, calls,
                   fin, ncmds>>

\* time.sleep returns; the Stop command is sent next (lines 116, 140)
partialSleepEnd(t) ==
    /\ th[t].pc = "sleeping"
    /\ th[t].sleepLeft = 0
    /\ th' = [th EXCEPT ![t].pc = "acquire", ![t].button = buttonStop, ![t].phase = 2]
    /\ UNCHANGED <<shutterStateList, code, lock, busy, frame, wave, sent, callback, calls,
                   fin, ncmds, last>>

\* ---------------------------------------------------------------- stop
\* line 151: secondsSinceLastCommand
stopElapsed(t) ==
    /\ th[t].pc = "elapsed"
    /\ th' = [th EXCEPT ![t].pc = "compute",
                        ![t].s = Round(shutterStateList[th[t].id].lastCommandTime.age,
                                       TicksPerSecond)]
    /\ UNCHANGED <<shutterStateList, code, lock, busy, frame, wave, sent, callback, calls,
                   fin, ncmds, last>>

\* lines 158-183: the position from the elapsed time, or the fallback
stopCompute(t) ==
    /\ th[t].pc = "compute"
    /\ LET id == th[t].id
           state == shutterStateList[id]
           dir == state.lastCommandDirection
       IN  IF StopInWindow(dir, th[t].s, id)
           THEN th' = [th EXCEPT ![t].pc = "setPosition", ![t].dir = dir,
                          ![t].positionRead = state.position,
                          ![t].newPosition =
                              StopPosition(dir, state.position, th[t].s,
                                           IF dir = "up" THEN Shutters[id].durationUp
                                           ELSE Shutters[id].durationDown)]
           ELSE th' = [th EXCEPT ![t].pc = "fallback", ![t].fallback = TRUE, ![t].dir = dir]
    /\ UNCHANGED <<shutterStateList, code, lock, busy, frame, wave, sent, callback, calls,
                   fin, ncmds, last>>

\* lines 185-197: stay where the shutter is, or expect the motor to move to
\* the intermediate position
stopFallback(t) ==
    /\ th[t].pc = "fallback"
    /\ LET id == th[t].id
           position == shutterStateList[id].position
           intermediatePosition == Shutters[id].intermediatePosition
       IN  IF intermediatePosition = <<>> \/ intermediatePosition[1] = position
           THEN th' = [th EXCEPT ![t].pc = "setPosition", ![t].newPosition = position]
           ELSE th' = [th EXCEPT ![t].pc = "regDir",
                          ![t].dir = IF position > intermediatePosition[1] THEN "down"
                                     ELSE "up"]
    /\ UNCHANGED <<shutterStateList, code, lock, busy, frame, wave, sent, callback, calls,
                   fin, ncmds, last>>

\* ---------------------------------------------------------------- environment
\* registerCallBack (lines 216-217)
registerCallBack ==
    /\ callback < MaxCallbacks
    /\ callback' = callback + 1
    /\ UNCHANGED <<shutterStateList, code, lock, busy, frame, wave, sent, calls, th, fin,
                   ncmds, last>>

\* Where the clock ticks for a caller thread: between calls, blocked on the
\* lock, and in time.sleep.  The statements between take no time.  A
\* transmission lasts a fraction of a second and no statement of sendCommand
\* reads the clock or the shutter state, so a tick inside it is the same tick
\* taken before it.
Waiting(t) ==
    \/ th[t].pc \in {"idle", "sleeping"}
    \/ th[t].pc = "acquire" /\ lock # None

\* one tick passes: every stored timestamp is one tick older, every sleep has
\* one tick less to go
Tick ==
    /\ \A t \in Callers : Waiting(t)
    /\ shutterStateList' =
          [id \in DOMAIN shutterStateList |->
             [shutterStateList[id] EXCEPT !.lastCommandTime.age = Min(AgeCap, @ + 1)]]
    /\ th' = [t \in Callers |-> [th[t] EXCEPT !.sleepLeft = Max(0, @ - 1)]]
    /\ fin' = [i \in 1..Len(fin) |->
                 [fin[i] EXCEPT !.sleepLeft = Max(0, @ - 1),
                                !.travelLeft = Max(0, @ - 100)]]
    /\ UNCHANGED <<code, lock, busy, frame, wave, sent, callback, calls, ncmds, last>>

\* ---------------------------------------------------------------- specifications
\* the statements of sendCommand, registerCommand and setPosition run by the
\* threads in T
Statements(T) ==
    \/ \E t \in T : sendCommandAcquire(t)
    \/ \E t \in T : sendCommandRead(t)
    \/ \E t \in T : sendCommandEncode(t)
    \/ \E t \in T : sendCommandRelease(t)
    \/ \E t \in T : registerCommandDirection(t)
    \/ \E t \in T : registerCommandTime(t)
    \/ \E t \in T : startThread(t)

\* the statements of stop after its sendCommand
StopStatements(T) ==
    \/ \E t \in T : stopElapsed(t)
    \/ \E t \in T : stopCompute(t)
    \/ \E t \in T : stopFallback(t)
    \/ \E t \in T : setPosition(t)
    \/ \E t \in T : setPositionCallbacks(t)

\* the partial moves
PartialMoves(T, I) ==
    \/ \E t \in T, id \in I, percentage \in PartialTargets : lowerPartial(t, id, percentage)
    \/ \E t \in T, id \in I, percentage \in PartialTargets : risePartial(t, id, percentage)
    \/ \E t \in T : partialSleepStart(t)
    \/ \E t \in T : partialSleepEnd(t)

\* the finalize threads, the backend, callback registration and the clock
Background ==
    \/ \E i \in 1..Len(fin) : waitAndSetFinalPositionStart(i)
    \/ \E i \in 1..Len(fin) : waitAndSetFinalPositionWake(i)
    \/ \E i \in 1..Len(fin) : waitAndSetFinalPositionSet(i)
    \/ \E i \in 1..Len(fin) : waitAndSetFinalPositionCallbacks(i)
    \/ wave_tx_done
    \/ registerCallBack
    \/ Tick

\* one control thread issuing commands on shutter "1", and the finalize threads
Next ==
    \/ \E id \in {"1"} : lower("c1", id)
    \/ \E id \in {"1"} : rise("c1", id)
    \/ \E id \in {"1"} : stop("c1", id)
    \/ \E id \in {"1"} : program("c1", id)
    \/ \E id \in {"1"} : getPosition("c1", id)
    \/ PartialMoves({"c1"}, {"1"})
    \/ Statements({"c1"})
    \/ StopStatements({"c1"})
    \/ Background

Spec == Init /\ [][Next]_vars

\* two threads calling lower, stop and program concurrently, on either
\* configured shutter
NextMT ==
    \/ \E t \in Callers, id \in DOMAIN Shutters : lower(t, id)
    \/ \E t \in Callers, id \in DOMAIN Shutters : stop(t, id)
    \/ \E t \in Callers, id \in DOMAIN Shutters : program(t, id)
    \/ Statements(Callers)
    \/ StopStatements(Callers)
    \/ Background

SpecMT == Init /\ [][NextMT]_vars

\* the button masks pressButtons is called with: Stop, Up and Down together,
\* and a mask past the four button bits, which does not fit its octet
PressedButtons == {buttonStop, buttonUp + buttonDown, 2 * buttonProg}

\* two threads pressing buttons concurrently, on a configured shutter or on an
\* id that is not configured: nothing but sendCommand runs.  The presses are
\* short ones: a long press only lengthens the pulse train.
NextSend ==
    \/ \E t \in Callers, id \in AllIds, buttons \in PressedButtons,
          longPress \in {FALSE} : pressButtons(t, id, buttons, longPress)
    \/ \E t \in Callers : sendCommandAcquire(t)
    \/ \E t \in Callers : sendCommandRead(t)
    \/ \E t \in Callers : sendCommandEncode(t)
    \/ \E t \in Callers : sendCommandRelease(t)
    \/ wave_tx_done

SpecSend == Init /\ [][NextSend]_vars

\* the same with the scheduling the threads get: a thread that can run its
\* next statement runs it, a thread blocked in lock.acquire() gets the lock
\* when it stays free, and the backend finishes every pulse train
SendFairness ==
    /\ \A t \in Callers : WF_vars(sendCommandAcquire(t))
    /\ \A t \in Callers : WF_vars(sendCommandRead(t))
    /\ \A t \in Callers : WF_vars(sendCommandEncode(t))
    /\ \A t \in Callers : WF_vars(sendCommandRelease(t))
    /\ WF_vars(wave_tx_done)

SpecSendFair == Init /\ [][NextSend]_vars /\ SendFairness

\* ---------------------------------------------------------------- properties
\* a caller thread returns from the call it is in
Returns(t) == th[t].pc # "idle" /\ th'[t].pc = "idle"

\* what one callback loop leaves in calls: each registered function once, with
\* (id, position), in the thread `by`
OneCallEach(id, position, by) ==
    [k \in 1..callback |-> [fn |-> k, id |-> id, position |-> position, by |-> by]]

\* C1: a finalize thread scheduled by one command never writes its position
\* once a second command on the same shutter has registered before the travel
\* time of the first elapsed.
C1_SupersededNeverWrites ==
    \A i \in 1..Len(fin) :
        fin[i].superseded => fin[i].pc \notin {"callbacks", "done"}

\* C2: every stored position, and every position stop has computed from the
\* elapsed time, is in 0..100.
C2_PositionInRange ==
    /\ \A id \in DOMAIN shutterStateList : shutterStateList[id].position \in 0..100
    /\ \A t \in Callers :
          th[t].verb = "stop" /\ th[t].pc \in {"setPosition", "callbacks"}
              => th[t].newPosition \in 0..100

\* a stop whose computed position was clamped at the open end
C2_Witness ==
    \E t \in Callers :
        /\ th[t].verb = "stop" /\ th[t].pc = "setPosition" /\ ~th[t].fallback
        /\ th[t].dir = "up"
        /\ th[t].positionRead
              + Round(th[t].s * 100, Shutters[th[t].id].durationUp) > 100
        /\ th[t].newPosition = 100

\* the pass of a caller through the body of sendCommand
C3_EachSend ==
    \A t \in Callers :
        th[t].pc = "encode" /\ th'[t].pc = "release" =>
            /\ code'[th[t].id] = code[th[t].id] + 1
            /\ ~th'[t].failed =>
                  /\ frame'.id = th[t].id
                  /\ frame'.code = code[th[t].id]

\* the code of a shutter changes in sendCommand only
C3_OnlySend ==
    \A id \in DOMAIN Shutters :
        code'[id] # code[id] =>
            \E t \in Callers : th[t].pc = "encode" /\ th[t].id = id /\ th'[t].pc = "release"

\* C3 as stated: each sendCommand puts the stored code in the frame and stores
\* that code plus one, sent or not; a call of lower, rise, stop or program
\* ends with the code advanced by 1, a call of a partial move by 2.
C3_Original ==
    [][/\ C3_EachSend
       /\ C3_OnlySend
       /\ \A t \in Callers :
             Returns(t) =>
                 code'[th[t].id] - th[t].codeBefore
                     = IF Partial(th[t].verb) THEN 2 ELSE 1]_vars

\* C3 amended: each sendCommand puts the stored code in the frame and stores
\* that code plus one, sent or not; a call of lower, rise, stop or program
\* ends with the code advanced by 1; a partial move ends with the code
\* advanced by 2 when it reached its Stop send and by 1 when it ended before.
C3_Amended ==
    [][/\ C3_EachSend
       /\ C3_OnlySend
       /\ \A t \in Callers :
             Returns(t) =>
                 code'[th[t].id] - th[t].codeBefore
                     = IF Partial(th[t].verb) /\ th[t].phase = 2 THEN 2 ELSE 1]_vars

\* a partial move whose Stop send found the backend gone: the code is two past
\* the code the call started with
C3_Witness ==
    \E t \in Callers :
        /\ Partial(th[t].verb) /\ th[t].pc = "release" /\ th[t].phase = 2
        /\ th[t].failed
        /\ code[th[t].id] = th[t].codeBefore + 2

\* C4: at most one thread is inside the transmit section, it holds the lock,
\* and while the backend is busy the lock is held by the thread that
\* submitted the pulse train.
C4_TransmitExclusion ==
    /\ Cardinality({t \in Callers : th[t].pc \in {"read", "encode", "release"}}) <= 1
    /\ \A t \in Callers : th[t].pc \in {"read", "encode", "release"} => lock = t
    /\ busy => lock \in Callers /\ th[lock].pc = "release" /\ ~th[lock].failed

\* one thread waits for the backend while a command for the other shutter
\* waits for the lock
C4_Witness ==
    \E t, u \in Callers :
        /\ t # u
        /\ th[t].pc = "release" /\ busy /\ lock = t
        /\ th[u].pc = "acquire"
        /\ th[u].id # th[t].id

\* the shutter was unseen when the call of lower or rise that thread t is in,
\* or that scheduled finalize thread i, began, and no other command has been
\* called on it since
C5_State ==
    /\ \A t \in Callers :
          th[t].verb \in {"lower", "rise"} /\ th[t].created =>
              /\ th[t].initial = IF th[t].verb = "lower" THEN 100 ELSE 0
              /\ th[t].pc = "release" /\ ~th[t].failed =>
                    /\ frame = [id |-> th[t].id,
                                button |-> IF th[t].verb = "lower" THEN 4 ELSE 2,
                                code |-> code[th[t].id] - 1,
                                repetition |-> SendRepeat]
                    /\ th[t].codeBefore = code[th[t].id] - 1
              /\ th[t].pc \in {"regDir", "regTime", "spawn"} => th[t].nsent = 1
              /\ th[t].alone =>
                    shutterStateList[th[t].id].position
                        = IF th[t].verb = "lower" THEN 100 ELSE 0
    /\ \A i \in 1..Len(fin) :
          fin[i].verb \in {"lower", "rise"} /\ fin[i].alone =>
              LET id == fin[i].id
                  from == IF fin[i].verb = "lower" THEN 100 ELSE 0
                  to == IF fin[i].verb = "lower" THEN 0 ELSE 100
                  duration == IF fin[i].verb = "lower" THEN Shutters[id].durationDown
                              ELSE Shutters[id].durationUp
              IN  /\ fin[i].pc # "discarded"
                  /\ fin[i].pc \in {"start", "sleep", "setPosition"} =>
                        /\ fin[i].timeToWait = 100 * duration * TicksPerSecond
                        /\ shutterStateList[id].position = from
                  /\ fin[i].travelLeft > 0 => fin[i].pc \in {"start", "sleep"}
                  /\ fin[i].pc \in {"callbacks", "done"} =>
                        shutterStateList[id].position = to

\* the callback loop of such a finalize thread
C5_Step ==
    \A i \in 1..Len(fin) :
        /\ fin[i].verb \in {"lower", "rise"} /\ fin[i].alone
        /\ fin[i].pc = "callbacks" /\ fin'[i].pc = "done"
        => calls' = OneCallEach(fin[i].id, IF fin[i].verb = "lower" THEN 0 ELSE 100, Thread(i))

\* C5: lower on an unseen shutter creates it at 100 and submits one Down frame
\* with the stored code before it returns; while no other command is called on
\* the shutter the position stays 100 until durationDown has elapsed, is then
\* written 0 by the finalize thread, never discarded, and each registered
\* callback is called once with (id, 0).  rise: 0, Up, durationUp, 100.
C5_LowerRiseUnseen == []C5_State /\ [][C5_Step]_vars

\* the finalize thread of a lower on an unseen shutter has written 0 and
\* called the registered callback
C5_Witness ==
    \E i \in 1..Len(fin) :
        /\ fin[i].verb = "lower" /\ fin[i].alone /\ fin[i].pc = "done"
        /\ shutterStateList[fin[i].id].position = 0
        /\ fin[i].ncalls = 1
        /\ calls = <<[fn |-> 1, id |-> fin[i].id, position |-> 0, by |-> Thread(i)]>>

\* the position the claim gives for a stop s seconds after a command in
\* direction dir, from the stored position
C6_Formula(dir, position, s, id) ==
    LET up == Round(100 * s, Shutters[id].durationUp)
        down == Round(100 * s, Shutters[id].durationDown)
    IN  CASE dir = "up" /\ position = 0 -> up
          [] dir = "up" /\ position + up > 100 -> 100
          [] dir = "up" -> position + up
          [] dir = "down" /\ position = 100 -> 100 - down
          [] dir = "down" /\ position - down < 0 -> 0
          [] dir = "down" -> position - down

C6_State ==
    /\ StopPosition("up", 0, 5, 20) = 25
    /\ StopPosition("down", 100, 5, 20) = 75
    /\ \A t \in Callers :
          th[t].verb = "stop" /\ ~th[t].fallback =>
              /\ th[t].pc \in {"setPosition", "callbacks"} =>
                    /\ th[t].dir \in {"up", "down"}
                    /\ th[t].s > 0
                    /\ th[t].s < (IF th[t].dir = "up" THEN Shutters[th[t].id].durationUp
                                  ELSE Shutters[th[t].id].durationDown)
                    /\ th[t].newPosition
                          = C6_Formula(th[t].dir, th[t].positionRead, th[t].s, th[t].id)
                    /\ shutterStateList[th[t].id].lastCommandDirection = th[t].dir
              /\ th[t].pc \in {"regDir", "regTime"} => th[t].dir = None
              /\ th[t].pc \notin {"spawn", "fallback"}
    /\ \A t \in Callers :
          th[t].verb = "stop" /\ th[t].pc = "fallback" =>
              /\ th[t].dir = "up"
                    => ~(th[t].s > 0 /\ th[t].s < Shutters[th[t].id].durationUp)
              /\ th[t].dir = "down"
                    => ~(th[t].s > 0 /\ th[t].s < Shutters[th[t].id].durationDown)

C6_Step ==
    \A t \in Callers :
        th[t].verb = "stop" /\ ~th[t].fallback =>
            /\ th[t].pc = "setPosition" /\ th'[t].pc # "setPosition" =>
                  /\ th'[t].pc = "callbacks"
                  /\ shutterStateList'[th[t].id].position = th[t].newPosition
            /\ Returns(t) /\ th[t].nsent = 1 =>
                  /\ th[t].pc = "regTime"
                  /\ shutterStateList'[th[t].id].lastCommandDirection = None

\* C6: a stop that finds direction up or down and 0 < s < the travel time of
\* that direction never takes the fallback: it computes the claim's position
\* from the position it reads,
\* writes it while the stored direction is still that direction, registers
\* direction none only afterwards, and returns only after both.
C6_StopFormula == []C6_State /\ [][C6_Step]_vars

\* stop one second after rise on a closed shutter with durationUp 3: 33
C6_Witness ==
    \E t \in Callers :
        /\ th[t].verb = "stop" /\ th[t].pc = "callbacks" /\ ~th[t].fallback
        /\ th[t].dir = "up" /\ th[t].positionRead = 0 /\ th[t].s = 1
        /\ shutterStateList[th[t].id].position = 33

\* no caller is inside a call
NoCall == \A t \in Callers : th[t].pc = "idle"

\* the previous command call on the shutter of the stop thread t is in was a stop
AfterStop(t) == th[t].verb = "stop" /\ th[t].prev \in {"stop committed", "stop deferred"}

C8_PartialReachesTarget ==
    [][\A t \in Callers :
          Partial(th[t].verb) /\ Returns(t) /\ th[t].nsent >= 1 /\ ~th[t].failed =>
              /\ th[t].nsent = 2
              /\ shutterStateList'[th[t].id].position = th[t].target]_vars

\* C9: a position is written by a thread that goes on to the callback loop;
\* the loop calls each registered function once with the id and the position
\* written, in that thread; nothing else calls a function; a superseded
\* finalize thread calls none.
C9_CallbacksOncePerWrite ==
    [][/\ \A id \in DOMAIN shutterStateList :
             shutterStateList'[id].position # shutterStateList[id].position =>
                 \/ \E t \in Callers :
                       /\ th[t].pc = "setPosition" /\ th'[t].pc = "callbacks"
                       /\ th[t].id = id
                       /\ th[t].newPosition = shutterStateList'[id].position
                 \/ \E i \in 1..Len(fin) :
                       /\ fin[i].pc = "setPosition" /\ fin'[i].pc = "callbacks"
                       /\ fin[i].id = id
                       /\ fin[i].newPosition = shutterStateList'[id].position
       /\ \A t \in Callers :
             th[t].pc = "callbacks" /\ th'[t].pc # "callbacks" =>
                 calls' = OneCallEach(th[t].id, th[t].newPosition, t)
       /\ \A i \in 1..Len(fin) :
             fin[i].pc = "callbacks" /\ fin'[i].pc # "callbacks" =>
                 calls' = OneCallEach(fin[i].id, fin[i].newPosition, Thread(i))
       /\ calls' # calls =>
             \/ \E t \in Callers : th[t].pc = "callbacks" /\ th'[t].pc # "callbacks"
             \/ \E i \in 1..Len(fin) : fin[i].pc = "callbacks" /\ fin'[i].pc # "callbacks"
       /\ \A i \in 1..Len(fin) :
             fin'[i].superseded => fin'[i].ncalls = 0]_vars

\* C10: a ShutterState is created only for an id that has none, with
\* direction none and position 100 by lower and lowerPartial, 0 by rise and
\* risePartial, 50 by stop, 0 by getPosition; a verb that finds a state leaves
\* it as it is and works from the stored position.
C10_CallSiteDefaults ==
    [][\A id \in AllIds :
          /\ id \notin DOMAIN shutterStateList /\ id \in DOMAIN shutterStateList' =>
                /\ shutterStateList'[id].lastCommandDirection = None
                /\ \/ th' = th /\ shutterStateList'[id].position = 0
                   \/ \E t \in Callers :
                         /\ th[t].pc = "idle" /\ th'[t].pc = "acquire"
                         /\ th'[t].id = id /\ th'[t].created
                         /\ shutterStateList'[id].position
                               = CASE th'[t].verb = "lower" -> 100
                                   [] th'[t].verb = "lowerPartial" -> 100
                                   [] th'[t].verb = "rise" -> 0
                                   [] th'[t].verb = "risePartial" -> 0
                                   [] th'[t].verb = "stop" -> 50
                         /\ th'[t].initial = shutterStateList'[id].position
          /\ id \in DOMAIN shutterStateList =>
                \A t \in Callers :
                    th[t].pc = "idle" /\ th'[t].pc = "acquire" /\ th'[t].id = id =>
                        /\ shutterStateList'[id] = shutterStateList[id]
                        /\ th'[t].verb # "program" =>
                              /\ ~th'[t].created
                              /\ th'[t].initial = shutterStateList[id].position]_vars

\* lower finds the state getPosition created: it works from position 0, not 100
C10_Witness ==
    \E t \in Callers :
        /\ th[t].verb = "lower" /\ th[t].pc = "acquire"
        /\ ~th[t].created /\ th[t].initial = 0
        /\ shutterStateList[th[t].id].position = 0

\* a step of the call of program that thread t is in, entry and return included
ProgramStep(t) ==
    /\ th[t].verb = "program" \/ th'[t].verb = "program"
    /\ th'[t] # th[t]

\* C11: program submits one frame with button 0x8, the stored code and
\* repetition 1; no step of the call changes the registry or any
\* ShutterState, calls a callback or starts a finalize thread; the call returns
\* with the code of its shutter advanced by 1 and the code of no other shutter
\* changed.
C11_ProgramNoTracking ==
    [][\A t \in Callers :
          ProgramStep(t) =>
              /\ shutterStateList' = shutterStateList
              /\ calls' = calls /\ callback' = callback
              /\ Len(fin') = Len(fin)
              /\ \A i \in 1..Len(fin) : fin'[i] = [fin[i] EXCEPT !.alone = fin'[i].alone,
                                                               !.settled = fin'[i].settled]
              /\ \A id \in DOMAIN Shutters : id # th'[t].id /\ id # th[t].id => code'[id] = code[id]
              /\ th[t].pc = "encode" =>
                    /\ code'[th[t].id] = code[th[t].id] + 1
                    /\ ~th'[t].failed =>
                          frame' = [id |-> th[t].id, button |-> 8, code |-> code[th[t].id],
                                    repetition |-> 1]
              /\ th[t].pc # "encode" /\ th[t].pc # "idle" => code' = code
              /\ Returns(t) =>
                    /\ code'[th[t].id] = th[t].codeBefore + 1
                    /\ ~th[t].failed => th[t].nsent = 1]_vars

\* program on a shutter that has no ShutterState waits for the backend with its
\* frame submitted, and the shutter still has no ShutterState
C11_Witness ==
    \E t \in Callers :
        /\ th[t].verb = "program" /\ th[t].pc = "release" /\ ~th[t].failed
        /\ frame.button = 8 /\ frame.repetition = 1
        /\ th[t].id \notin DOMAIN shutterStateList

\* ---------------------------------------------------------------- the frame encoder alone
\* the buttons, rolling codes, addresses and repetition counts sendCommand is
\* applied to
MaxRepetition == 3
FrameButtons == {buttonStop, buttonUp, buttonDown, buttonProg}
FrameCodes == {c \in 0..65535 : c % 1777 = 0} \cup {1, 255, 256, 4660, 43690, 65535}
FrameAddresses == {0, 1, 2, 255, 256, 65536, 1193046, 11184810, 16777215}

\* sendCommand is entered with the arguments and the stored code; nothing is
\* encoded yet
InitFrame ==
    /\ wave \in {[NoWave EXCEPT !.teleco = a, !.button = b, !.code = c, !.repetition = r] :
                    a \in FrameAddresses, b \in FrameButtons, c \in FrameCodes,
                    r \in 1..MaxRepetition}
    /\ shutterStateList = <<>>
    /\ code = [id \in DOMAIN Shutters |-> Shutters[id].code]
    /\ lock = None
    /\ busy = FALSE
    /\ frame = NoFrame
    /\ sent = [id \in DOMAIN Shutters |-> <<>>]
    /\ callback = 0
    /\ calls = <<>>
    /\ th = [t \in Callers |-> IdleThread]
    /\ fin = <<>>
    /\ ncmds = 0
    /\ last = [id \in AllIds |-> None]

\* lines 249-275: self.frame is written
frameEncode ==
    /\ wave.button # 0 /\ wave.octets = <<>>
    /\ fits(wave.button, wave.code, wave.teleco)
    /\ wave' = [wave EXCEPT !.octets = encode(wave.button, wave.code, wave.teleco)]
    /\ UNCHANGED <<shutterStateList, code, lock, busy, frame, sent, callback, calls,
                   th, fin, ncmds, last>>

\* lines 283-317: the list wf is built from self.frame
wavePulses ==
    /\ wave.octets # <<>> /\ wave.pulses = <<>>
    /\ wave' = [wave EXCEPT !.pulses = pulseTrain(wave.octets, wave.repetition)]
    /\ UNCHANGED <<shutterStateList, code, lock, busy, frame, sent, callback, calls,
                   th, fin, ncmds, last>>

NextFrame ==
    \/ frameEncode
    \/ wavePulses

SpecFrame == InitFrame /\ [][NextFrame]_vars

\* the octets with the XOR chain undone: octet i xor encoded octet i-1
C12_Deobfuscated(e) == [i \in 1..7 |-> IF i = 1 THEN e[1] ELSE Xor(e[i], e[i - 1])]

\* the XOR over octets i..7 of (octet xor (octet >> 4))
RECURSIVE C12_Fold(_, _)
C12_Fold(d, i) ==
    IF i > 7 THEN 0 ELSE Xor(Xor(d[i], d[i] \div 16), C12_Fold(d, i + 1))

\* C12: an encoded frame is seven octets, the first 0xA7; with the XOR chain
\* undone, the high nibble of octet 1 is the button, octets 2-3 are the code
\* and octets 4-6 the address, big-endian, and the XOR over the seven octets
\* of (octet xor (octet >> 4)) has low nibble 0.
C12_FrameRoundTrip ==
    wave.octets # <<>> =>
        LET e == wave.octets
            d == C12_Deobfuscated(e)
        IN  /\ Len(e) = 7
            /\ \A i \in 1..7 : e[i] \in 0..255
            /\ e[1] = 167
            /\ d[2] \div 16 = wave.button
            /\ d[3] * 256 + d[4] = wave.code
            /\ d[5] * 65536 + d[6] * 256 + d[7] = wave.teleco
            /\ C12_Fold(d, 1) % 16 = 0

\* button Up, code 0x1234, address 0x123456 is encoded as the code encodes it
C12_Witness ==
    /\ wave.button = 2 /\ wave.code = 4660 /\ wave.teleco = 1193046
    /\ wave.octets = <<167, 139, 153, 173, 191, 139, 221>>

\* a pulse with the transmit pin (bit 16) switched on, and one with it switched off
C13_Active(delay) == <<65536, 0, delay>>
C13_Idle(delay) == <<0, 65536, delay>>

\* pulses p[b .. b+2n-1] are n hardware-sync pairs, then one software-sync pair
C13_Syncs(p, b, n) ==
    /\ \A k \in 0..(n - 1) :
          p[b + 2 * k] = C13_Active(2560) /\ p[b + 2 * k + 1] = C13_Idle(2560)
    /\ p[b + 2 * n] = C13_Active(4550)
    /\ p[b + 2 * n + 1] = C13_Idle(640)

\* pulses p[b .. b+111] are the 56 bits of the octets e, most significant bit
\* of octet 0 first, bit 1 as idle then active, bit 0 as active then idle, and
\* p[b+112] is the idle inter-frame gap
C13_Payload(p, b, e) ==
    /\ \A n \in 0..55 :
          LET bit == (e[(n \div 8) + 1] \div 2^(7 - (n % 8))) % 2
          IN  IF bit = 1
              THEN p[b + 2 * n] = C13_Idle(640) /\ p[b + 2 * n + 1] = C13_Active(640)
              ELSE p[b + 2 * n] = C13_Active(640) /\ p[b + 2 * n + 1] = C13_Idle(640)
    /\ p[b + 112] = C13_Idle(30415)

\* C13: the pulse train for repetition r has 121 + 129*(r-1) pulses: one
\* wake-up pair, then 2 hardware-sync pairs, one software-sync pair, the 112
\* payload pulses and the gap, then r-1 times 7 hardware-sync pairs, one
\* software-sync pair, the same 112 payload pulses and the gap.
C13_PulseTrainStructure ==
    wave.pulses # <<>> =>
        LET p == wave.pulses
            r == wave.repetition
        IN  /\ r >= 1
            /\ Len(p) = 121 + 129 * (r - 1)
            /\ p[1] = C13_Active(9415) /\ p[2] = C13_Idle(89565)
            /\ C13_Syncs(p, 3, 2)
            /\ C13_Payload(p, 9, wave.octets)
            /\ \A k \in 1..(r - 1) :
                  LET o == 121 + 129 * (k - 1)
                  IN  /\ C13_Syncs(p, o + 1, 7)
                      /\ C13_Payload(p, o + 17, wave.octets)

\* a train of three frames: 379 pulses
C13_Witness ==
    /\ wave.repetition = 3
    /\ Len(wave.pulses) = 379
    /\ wave.octets = <<167, 139, 153, 173, 191, 139, 221>>
    /\ wave.pulses[9] = C13_Idle(640) /\ wave.pulses[11] = C13_Active(640)

\* one control thread that passes the configured id "1" or an id that is not
\* configured
AnyId == {"1"} \cup UnknownIds

NextAnyId ==
    \/ \E id \in AnyId : lower("c1", id)
    \/ \E id \in AnyId : rise("c1", id)
    \/ \E id \in AnyId : stop("c1", id)
    \/ \E id \in AnyId : program("c1", id)
    \/ \E id \in AnyId : getPosition("c1", id)
    \/ PartialMoves({"c1"}, AnyId)
    \/ Statements({"c1"})
    \/ StopStatements({"c1"})
    \/ Background

SpecAnyId == Init /\ [][NextAnyId]_vars

\* C14: a command verb called with an id that is not configured adds no entry
\* to shutterStateList, and while a call with such an id is in progress no code
\* advances, nothing is handed to the backend, no finalize thread is started
\* and no ShutterState changes.
C14_UnknownIdChangesNothing ==
    [][/\ \A id \in UnknownIds :
             ncmds' = ncmds + 1 /\ id \in DOMAIN shutterStateList'
                 => id \in DOMAIN shutterStateList
       /\ \A t \in Callers :
             th[t].id \in UnknownIds /\ th'[t] # th[t] =>
                 /\ code' = code
                 /\ wave' = wave /\ busy' = busy
                 /\ Len(fin') = Len(fin)
                 /\ shutterStateList' = shutterStateList]_vars

\* C15: between the read and the dependent write of an operation no other
\* operation on the shutter registers a command or writes the position: while
\* a finalize thread is between its comparison and its write, lastCommandTime
\* is still the value it compared; while stop is between its read of the
\* position and its write, the position is still the value it read.
C15_SameShutterLinearized ==
    /\ \A i \in 1..Len(fin) : fin[i].pc = "setPosition" => NotInterrupted(i)
    /\ \A t \in Callers :
          th[t].verb = "stop" /\ th[t].pc = "setPosition" =>
              shutterStateList[th[t].id].position
                  = IF th[t].fallback THEN th[t].newPosition ELSE th[t].positionRead

\* a finalize thread commits its target (line 92)
FinalizeCommits(i) ==
    i \in 1..Len(fin) /\ fin[i].pc = "setPosition" /\ fin'[i].pc = "callbacks"

\* a partial move has sent its Stop, committed its target and returns
PartialCommits(t) ==
    Partial(th[t].verb) /\ th[t].pc = "callbacks" /\ Returns(t)

\* stop has committed a computed position, registered and returns
StopCommits(t) ==
    th[t].verb = "stop" /\ ~th[t].fallback /\ th[t].pc = "regTime" /\ Returns(t)

\* C16: lastCommandDirection is none once the shutter has stopped or settled:
\* after stop has committed a computed position, after a deferred finalize
\* that no later command overtook has committed its target, and after a
\* partial move has sent its Stop and committed its target; after a lower or
\* rise has registered it is the direction of that command.
C16_DirectionBookkeeping ==
    [][/\ \A t \in Callers :
             StopCommits(t) \/ PartialCommits(t) =>
                 shutterStateList'[th[t].id].lastCommandDirection = None
       /\ \A i \in 1..Len(fin) :
             FinalizeCommits(i) /\ fin[i].alone =>
                 shutterStateList'[fin[i].id].lastCommandDirection = None
       /\ \A t \in Callers :
             th[t].verb \in {"lower", "rise"} /\ th[t].pc = "regTime" /\ th'[t].pc = "spawn" =>
                 shutterStateList'[th[t].id].lastCommandDirection = th[t].dir]_vars

\* stop is in its fallback branch and expects the motor to move
MovingFallback(t) ==
    th[t].verb = "stop" /\ th[t].fallback /\ th[t].dir # None
        /\ th[t].pc \in {"regDir", "regTime", "spawn"}

\* the travel between position and the intermediate position in the direction
\* dir, in hundredths of a tick
C17_Travel(id, position, dir) ==
    Abs(position - Shutters[id].intermediatePosition[1])
        * (IF dir = "down" THEN Shutters[id].durationDown ELSE Shutters[id].durationUp)
        * TicksPerSecond

\* the finalize thread i was scheduled by the last command called on its
\* shutter, a stop, and no call is in progress
LastCommandWasStop(i) ==
    i = Len(fin) /\ fin[i].verb = "stop" /\ NoCall /\ last[fin[i].id] = "stop deferred"

C18_Sends(t) == th[t].pc = "encode" /\ th'[t].pc = "release" /\ ~th'[t].failed

\* the rolling code in the octets handed to the backend: octets 2 and 3 with
\* the XOR chain undone
C18_Embedded(octets) ==
    C12_Deobfuscated(octets)[3] * 256 + C12_Deobfuscated(octets)[4]

\* C18 as stated: the code embedded in a frame sent for a shutter is the code of
\* the previous frame sent for that shutter plus one, whatever the
\* interleaving of the calling threads.
C18_Original ==
    [][\A t \in Callers :
          C18_Sends(t) /\ sent[th[t].id] # <<>> =>
              C18_Embedded(wave'.octets) = sent[th[t].id][1] + 1]_vars

\* C18 amended: the code embedded in a frame sent for a shutter is the stored
\* code, it is greater than the code of every frame sent for that shutter
\* before, and the send stores it plus one; the stored code changes in no
\* other step and is always past the last code sent, whatever the
\* interleaving of the calling threads.
C18_Amended ==
    /\ [](\A id \in DOMAIN Shutters : sent[id] # <<>> => sent[id][1] < code[id])
    /\ [][/\ \A t \in Callers :
               C18_Sends(t) =>
                   /\ C18_Embedded(wave'.octets) = code[th[t].id]
                   /\ sent'[th[t].id] = <<code[th[t].id]>>
                   /\ code'[th[t].id] = code[th[t].id] + 1
                   /\ sent[th[t].id] # <<>> => code[th[t].id] > sent[th[t].id][1]
          /\ \A id \in DOMAIN Shutters :
               code'[id] # code[id] =>
                   /\ code'[id] = code[id] + 1
                   /\ \E t \in Callers :
                         th[t].pc = "encode" /\ th[t].id = id /\ th'[t].pc = "release"]_vars

\* two threads are in sendCommand for the same shutter after an earlier send
\* on it: one has handed over the frame with the second code while the other
\* waits for the lock
C18_Witness ==
    \E t, u \in Callers :
        /\ t # u /\ th[t].id = th[u].id
        /\ th[t].pc = "release" /\ ~th[t].failed /\ lock = t
        /\ th[u].pc = "acquire"
        /\ ncmds = 3
        /\ sent[th[t].id] = <<Shutters[th[t].id].code + 1>>
        /\ wave.code = Shutters[th[t].id].code + 1

\* C19: a stop called on a shutter that has settled (a finalize thread has
\* committed its target, or a partial move has returned after committing its
\* target) with no command called on it since takes the fallback branch: it
\* adds no elapsed-time percentage to the settled position and subtracts none.
C19_StopAfterSettle ==
    [][\A t \in Callers :
          th[t].verb = "stop" /\ th[t].settled /\ th[t].pc = "compute"
              /\ th'[t].pc # "compute" => th'[t].fallback]_vars

\* thread t is inside the try block of sendCommand
InTransmit(t) == th[t].pc \in {"read", "encode", "release"}

\* C20: the lock is held only by a thread inside the try block of sendCommand,
\* every way out of that block (the frame was sent, the id is not configured,
\* the backend is not connected, a frame field does not fit) leaves the lock
\* free, and, the backend finishing every pulse train, every thread waiting
\* for the lock gets it and every thread holding it gives it up.
C20_LockReleased ==
    /\ [](\A t \in Callers : lock = t <=> InTransmit(t))
    /\ [][\A t \in Callers : InTransmit(t) /\ ~InTransmit(t)' => lock' = None]_vars
    /\ \A t \in Callers : (th[t].pc = "acquire") ~> (lock = t)
    /\ \A t \in Callers : (lock = t) ~> (lock # t)

\* a thread has got the lock that it was waiting for while a send on the same
\* shutter failed with the backend not connected: that send has advanced the
\* code, transmitted nothing, and has returned
C20_Witness ==
    \E t \in Callers :
        /\ lock = t /\ th[t].pc = "read"
        /\ th[t].id \in DOMAIN Shutters
        /\ th[t].prev = None /\ last[th[t].id] = "other"
        /\ sent[th[t].id] = <<>>
        /\ code[th[t].id] = Shutters[th[t].id].code + 1

====
